---- MODULE Spec2Model ----
(***************************************************************************)
(* The scheduling engine of the proposal generator: business-day           *)
(* arithmetic, the dependency sort with cycle detection, date propagation  *)
(* with pinned starts, the milestone rollup, and the editing handlers that *)
(* call the engine.                                                        *)
(*                                                                         *)
(* Dates.  A calendar date is an integer day number; day 0 is Monday       *)
(* 08/18/25, so weekday(d) = d % 7 with 0 = Monday .. 6 = Sunday.  A date  *)
(* STRING, as stored in start_date / end_date / project_start_date, is a   *)
(* tuple: << >> is "", <<d>> is the zero-padded "%m/%d/%y" text of day d   *)
(* (what strftime writes), <<d, 0>> is an unpadded text of the same day    *)
(* ("9/1/25": strptime accepts it, strftime never writes it), and a tuple  *)
(* of length 3 is text that strptime rejects.                              *)
(***************************************************************************)
EXTENDS Integers, Sequences, FiniteSets, TLC

VARIABLES
    items,                    \* id -> ProposalItem object (its fields)
    template_items,           \* ids of the top-level items, in order
    item_id_map,              \* ids in dict insertion order (populate_tree)
    project_start_date,       \* the StringVar of the project start entry
    last_project_start_date,  \* last accepted project start
    us_holidays,              \* the holiday calendar (set of day numbers)
    result,                   \* how the last handler's recompute ended
    sorted_order,             \* scheduling order of the last recompute
    at_entry,                 \* unpin_all and the pinned starts at its entry
    cal,                      \* last direct call of a calendar function
    task_counter,             \* the sequential id counter
    steps                     \* handlers run so far

vars == <<items, template_items, item_id_map, project_start_date,
          last_project_start_date, us_holidays, result, sorted_order, at_entry,
          cal, task_counter, steps>>

-----------------------------------------------------------------------------
(* Bounds of the model *)

MaxSteps == 2
MaxDuration == 2
MaxLag == 1
MaxCalDay == 20
MaxCalDays == 4

-----------------------------------------------------------------------------
(* Date strings *)

EmptyStr == << >>

BadStr == <<0, 0, 0>>

\* datetime.strftime(d, "%m/%d/%y")
strftime(d) == <<d>>

\* an unpadded spelling of day d, as a user may type it
ShortStr(d) == <<d, 0>>

\* does datetime.strptime(s, "%m/%d/%y") succeed
Parsable(s) == Len(s) \in {1, 2}

\* datetime.strptime(s, "%m/%d/%y") for a parsable s
strptime(s) == s[1]

weekday(d) == d % 7

\* the loop conditions of _add_business_days, negated
IsBusinessDay(d) == weekday(d) < 5 /\ d \notin us_holidays

Abs(n) == IF n < 0 THEN -n ELSE n

\* the skip loop testing the weekday only
RECURSIVE SkipNonBusiness_WeekendsOnly(_, _)
SkipNonBusiness_WeekendsOnly(d, step) ==
    IF weekday(d) < 5 THEN d ELSE SkipNonBusiness_WeekendsOnly(d + step, step)

\* while current_date.weekday() >= 5 or current_date in self.us_holidays: current_date += step
RECURSIVE SkipNonBusiness(_, _)
SkipNonBusiness(d, step) ==
    IF IsBusinessDay(d) THEN d ELSE SkipNonBusiness(d + step, step)

\* while days_counted < abs(days_to_add): step, count the business days
RECURSIVE CountDays(_, _, _)
CountDays(d, step, remaining) ==
    IF remaining <= 0 THEN d
    ELSE LET n == d + step
         IN  CountDays(n, step, IF IsBusinessDay(n) THEN remaining - 1 ELSE remaining)

\* _add_business_days counting calendar days
_add_business_days_CalendarDays(start_date_str, days_to_add) ==
    IF start_date_str = EmptyStr \/ ~Parsable(start_date_str) THEN EmptyStr
    ELSE strftime(strptime(start_date_str)
                  + (IF days_to_add > 0 THEN days_to_add - 1 ELSE days_to_add))

\* _add_business_days without "if days_to_add > 0: days_to_add -= 1"
_add_business_days_NoDecrement(start_date_str, days_to_add) ==
    IF start_date_str = EmptyStr \/ ~Parsable(start_date_str) THEN EmptyStr
    ELSE LET step == IF days_to_add >= 0 THEN 1 ELSE -1
             d0   == SkipNonBusiness(strptime(start_date_str), 1)
             d1   == CountDays(d0, step, Abs(days_to_add))
             d2   == SkipNonBusiness(d1, step)
         IN  strftime(d2)

_add_business_days(start_date_str, days_to_add) ==
    IF start_date_str = EmptyStr \/ ~Parsable(start_date_str) THEN EmptyStr
    ELSE LET step == IF days_to_add >= 0 THEN 1 ELSE -1
             n    == IF days_to_add > 0 THEN days_to_add - 1 ELSE days_to_add
             d0   == SkipNonBusiness(strptime(start_date_str), 1)
             d1   == CountDays(d0, step, Abs(n))
             d2   == SkipNonBusiness(d1, step)
         IN  strftime(d2)

\* _get_business_days_between without the "+ 1" that counts the end day
_get_business_days_between_Exclusive(start_date_str, end_date_str) ==
    IF ~Parsable(start_date_str) \/ ~Parsable(end_date_str) THEN 0
    ELSE LET s == strptime(start_date_str)
             e == strptime(end_date_str)
         IN  IF s > e THEN 0
             ELSE Cardinality({d \in s..(e - 1) : IsBusinessDay(d)})

_get_business_days_between(start_date_str, end_date_str) ==
    IF ~Parsable(start_date_str) \/ ~Parsable(end_date_str) THEN 0
    ELSE LET s == strptime(start_date_str)
             e == strptime(end_date_str)
         IN  IF s > e THEN 0
             ELSE Cardinality({d \in s..e : IsBusinessDay(d)})

-----------------------------------------------------------------------------
(* ProposalItem objects and the forest *)

None == 0

PredecessorTypes == {"FS", "SS", "FF", "SF"}

\* ProposalItem.__init__ (name and indent_level are display-only and left out)
ProposalItem(duration, price, is_milestone) ==
    [duration |-> duration, price |-> price, start_date |-> EmptyStr,
     end_date |-> EmptyStr, is_milestone |-> is_milestone, enabled |-> TRUE,
     children |-> << >>, parent |-> None, predecessor_id |-> None,
     predecessor_type |-> "FS", lag |-> 0, is_start_pinned |-> FALSE]

Range(s) == {s[k] : k \in 1..Len(s)}

RECURSIVE ConcatAll(_)
ConcatAll(ss) == IF ss = << >> THEN << >> ELSE Head(ss) \o ConcatAll(Tail(ss))

\* build_id_map of populate_tree: the ids of a list of items and of all their
\* descendants, in pre-order (the insertion order of the item_id_map dict)
RECURSIVE build_id_map(_, _)
build_id_map(its, list) ==
    ConcatAll([k \in 1..Len(list) |->
                 <<list[k]>> \o build_id_map(its, its[list[k]].children)])

-----------------------------------------------------------------------------
(* calculate_all_dates *)

\* UnpinAll that ignores unpin_all
UnpinAll_Never(its, idmap, unpin_all) == its

\* if unpin_all: clear is_start_pinned on every item of the map
UnpinAll(its, idmap, unpin_all) ==
    [i \in DOMAIN its |->
        IF unpin_all /\ i \in Range(idmap)
        THEN [its[i] EXCEPT !.is_start_pinned = FALSE] ELSE its[i]]

\* ClearDates without the test of is_start_pinned
ClearDates_AlsoPinned(its, idmap) ==
    [i \in DOMAIN its |->
        IF i \in Range(idmap)
        THEN [its[i] EXCEPT !.start_date = EmptyStr, !.end_date = EmptyStr]
        ELSE its[i]]

\* clear start_date and end_date of every item that is not pinned
ClearDates(its, idmap) ==
    [i \in DOMAIN its |->
        IF i \in Range(idmap) /\ ~its[i].is_start_pinned
        THEN [its[i] EXCEPT !.start_date = EmptyStr, !.end_date = EmptyStr]
        ELSE its[i]]

\* all_tasks: the enabled non-milestone items, in map order
AllTasks(its, idmap) ==
    SelectSeq(idmap, LAMBDA i : its[i].enabled /\ ~its[i].is_milestone)

\* the condition under which the loop adds the edge predecessor -> item
HasEdge(its, idmap, i) ==
    /\ its[i].predecessor_id # None
    /\ its[i].predecessor_id \in Range(idmap)
    /\ its[its[i].predecessor_id].enabled

\* graph[item.predecessor_id] raises KeyError when the predecessor is no key of
\* graph, that is, no member of all_tasks
GraphKeyError(its, idmap) ==
    \E i \in Range(AllTasks(its, idmap)) :
        HasEdge(its, idmap, i) /\ its[i].predecessor_id \notin Range(AllTasks(its, idmap))

\* graph[p]: the successors of p, appended in all_tasks order
Graph(its, idmap) ==
    [p \in Range(AllTasks(its, idmap)) |->
        SelectSeq(AllTasks(its, idmap),
                  LAMBDA i : HasEdge(its, idmap, i) /\ its[i].predecessor_id = p)]

\* in_degree left at its initial zero for every task
InDegree_AllZero(its, idmap) ==
    [i \in Range(AllTasks(its, idmap)) |-> 0]

InDegree(its, idmap) ==
    [i \in Range(AllTasks(its, idmap)) |-> IF HasEdge(its, idmap, i) THEN 1 ELSE 0]

\* Relax without the decrement of in_degree
RECURSIVE Relax_NoDecrement(_, _, _)
Relax_NoDecrement(succs, in_degree, queue) ==
    IF succs = << >> THEN [in_degree |-> in_degree, queue |-> queue]
    ELSE LET v == Head(succs)
             d == in_degree
         IN  Relax_NoDecrement(Tail(succs), d, IF d[v] = 0 THEN Append(queue, v) ELSE queue)

\* for v_id in graph[u_id]: in_degree[v_id] -= 1; append to the queue at zero
RECURSIVE Relax(_, _, _)
Relax(succs, in_degree, queue) ==
    IF succs = << >> THEN [in_degree |-> in_degree, queue |-> queue]
    ELSE LET v == Head(succs)
             d == [in_degree EXCEPT ![v] = @ - 1]
         IN  Relax(Tail(succs), d, IF d[v] = 0 THEN Append(queue, v) ELSE queue)

\* while queue: u_id = queue.pop(0); sorted_order.append(u_id); ...
RECURSIVE KahnLoop(_, _, _, _)
KahnLoop(graph, in_degree, queue, sorted) ==
    IF queue = << >> THEN sorted
    ELSE LET u == Head(queue)
             r == Relax(graph[u], in_degree, Tail(queue))
         IN  KahnLoop(graph, r.in_degree, r.queue, Append(sorted, u))

TopoSort(its, idmap) ==
    LET in_degree == InDegree(its, idmap)
        queue     == SelectSeq(AllTasks(its, idmap), LAMBDA i : in_degree[i] = 0)
    IN  KahnLoop(Graph(its, idmap), in_degree, queue, << >>)

\* the start of item i with FF and SF counting the whole duration backwards
DeriveStart_WholeDurationBack(its, idmap, i, project_start) ==
    LET item == its[i]
        p    == item.predecessor_id
        usable == /\ p # None
                  /\ p \in Range(idmap)
                  /\ its[p].enabled
                  /\ its[p].end_date # EmptyStr
    IN  IF usable
        THEN CASE item.predecessor_type = "FS" ->
                    _add_business_days(its[p].end_date, item.lag + 1)
               [] item.predecessor_type = "SS" ->
                    _add_business_days(its[p].start_date, item.lag)
               [] item.predecessor_type = "FF" ->
                    _add_business_days(_add_business_days(its[p].end_date, item.lag),
                                       -item.duration)
               [] item.predecessor_type = "SF" ->
                    _add_business_days(_add_business_days(its[p].start_date, item.lag),
                                       -item.duration)
               [] OTHER -> item.start_date
        ELSE project_start

\* the start of item i with the fallback to the project start left out
DeriveStart_NoFallback(its, idmap, i, project_start) ==
    LET item == its[i]
        p    == item.predecessor_id
        usable == /\ p # None
                  /\ p \in Range(idmap)
                  /\ its[p].enabled
                  /\ its[p].end_date # EmptyStr
    IN  IF usable
        THEN CASE item.predecessor_type = "FS" ->
                    _add_business_days(its[p].end_date, item.lag + 1)
               [] item.predecessor_type = "SS" ->
                    _add_business_days(its[p].start_date, item.lag)
               [] item.predecessor_type = "FF" ->
                    _add_business_days(_add_business_days(its[p].end_date, item.lag),
                                       -item.duration + 1)
               [] item.predecessor_type = "SF" ->
                    _add_business_days(_add_business_days(its[p].start_date, item.lag),
                                       -item.duration + 1)
               [] OTHER -> item.start_date
        ELSE item.start_date

\* the start date the loop derives for a non-pinned item
DeriveStart(its, idmap, i, project_start) ==
    LET item == its[i]
        p    == item.predecessor_id
        usable == /\ p # None
                  /\ p \in Range(idmap)
                  /\ its[p].enabled
                  /\ its[p].end_date # EmptyStr
    IN  IF usable
        THEN CASE item.predecessor_type = "FS" ->
                    _add_business_days(its[p].end_date, item.lag + 1)
               [] item.predecessor_type = "SS" ->
                    _add_business_days(its[p].start_date, item.lag)
               [] item.predecessor_type = "FF" ->
                    _add_business_days(_add_business_days(its[p].end_date, item.lag),
                                       -item.duration + 1)
               [] item.predecessor_type = "SF" ->
                    _add_business_days(_add_business_days(its[p].start_date, item.lag),
                                       -item.duration + 1)
               [] OTHER -> item.start_date
        ELSE project_start

\* the loop body with the duration counted backwards from the start
ScheduleItem_CountsBack(its, idmap, i, project_start) ==
    LET start == IF its[i].is_start_pinned THEN its[i].start_date
                 ELSE DeriveStart(its, idmap, i, project_start)
    IN  [its EXCEPT ![i].start_date = start,
                    ![i].end_date = _add_business_days(start, -its[i].duration)]

\* the loop body with the end date counted from the derived start even when
\* the start is pinned
ScheduleItem_EndFromDerivedStart(its, idmap, i, project_start) ==
    LET start == IF its[i].is_start_pinned THEN its[i].start_date
                 ELSE DeriveStart(its, idmap, i, project_start)
    IN  [its EXCEPT ![i].start_date = start,
                    ![i].end_date =
                        _add_business_days(DeriveStart(its, idmap, i, project_start),
                                           its[i].duration)]

\* the body of "for item_id in sorted_order"
ScheduleItem(its, idmap, i, project_start) ==
    LET start == IF its[i].is_start_pinned THEN its[i].start_date
                 ELSE DeriveStart(its, idmap, i, project_start)
    IN  [its EXCEPT ![i].start_date = start,
                    ![i].end_date = _add_business_days(start, its[i].duration)]

RECURSIVE Propagate(_, _, _, _)
Propagate(its, idmap, order, project_start) ==
    IF order = << >> THEN its
    ELSE Propagate(ScheduleItem(its, idmap, Head(order), project_start),
                   idmap, Tail(order), project_start)

\* the sum of the prices of the tasks of a list, milestones left out
RECURSIVE SumPrices_TasksOnly(_, _)
SumPrices_TasksOnly(its, list) ==
    IF list = << >> THEN 0
    ELSE (IF its[Head(list)].is_milestone THEN 0 ELSE its[Head(list)].price)
         + SumPrices_TasksOnly(its, Tail(list))

RECURSIVE SumPrices(_, _)
SumPrices(its, list) ==
    IF list = << >> THEN 0 ELSE its[Head(list)].price + SumPrices(its, Tail(list))

Min(S) == CHOOSE m \in S : \A x \in S : m <= x
Max(S) == CHOOSE m \in S : \A x \in S : m >= x

\* RollupItem adding the children's prices to the stored price;
\* st = [items, error]: strptime raises ValueError on a child date it rejects
RollupItem_AddToPrice(st, i) ==
    LET its == st.items
        enabled_children == SelectSeq(its[i].children, LAMBDA c : its[c].enabled)
        starts == {its[c].start_date : c \in {x \in Range(enabled_children) :
                                                its[x].start_date # EmptyStr}}
        ends   == {its[c].end_date : c \in {x \in Range(enabled_children) :
                                              its[x].end_date # EmptyStr}}
        new_start == IF starts # {} THEN strftime(Min({strptime(s) : s \in starts}))
                     ELSE its[i].start_date
        new_end   == IF ends # {} THEN strftime(Max({strptime(s) : s \in ends}))
                     ELSE its[i].end_date
    IN  IF enabled_children = << >> THEN st
        ELSE IF \E s \in starts \cup ends : ~Parsable(s)
        THEN [st EXCEPT !.error = TRUE]
        ELSE [st EXCEPT !.items[i].start_date = new_start,
                        !.items[i].end_date = new_end,
                        !.items[i].duration =
                            _get_business_days_between(new_start, new_end),
                        !.items[i].price = its[i].price + SumPrices(its, enabled_children)]

\* RollupItem that sums the prices only into a milestone whose price is 0;
\* st = [items, error]: strptime raises ValueError on a child date it rejects
RollupItem_KeepPrice(st, i) ==
    LET its == st.items
        enabled_children == SelectSeq(its[i].children, LAMBDA c : its[c].enabled)
        starts == {its[c].start_date : c \in {x \in Range(enabled_children) :
                                                its[x].start_date # EmptyStr}}
        ends   == {its[c].end_date : c \in {x \in Range(enabled_children) :
                                              its[x].end_date # EmptyStr}}
        new_start == IF starts # {} THEN strftime(Min({strptime(s) : s \in starts}))
                     ELSE its[i].start_date
        new_end   == IF ends # {} THEN strftime(Max({strptime(s) : s \in ends}))
                     ELSE its[i].end_date
    IN  IF enabled_children = << >> THEN st
        ELSE IF \E s \in starts \cup ends : ~Parsable(s)
        THEN [st EXCEPT !.error = TRUE]
        ELSE [st EXCEPT !.items[i].start_date = new_start,
                        !.items[i].end_date = new_end,
                        !.items[i].duration =
                            _get_business_days_between(new_start, new_end),
                        !.items[i].price = IF its[i].price # 0 THEN its[i].price
                                           ELSE SumPrices(its, enabled_children)]

\* the rollup of one enabled milestone whose children are already rolled up;
\* st = [items, error]: strptime raises ValueError on a child date it rejects
RollupItem(st, i) ==
    LET its == st.items
        enabled_children == SelectSeq(its[i].children, LAMBDA c : its[c].enabled)
        starts == {its[c].start_date : c \in {x \in Range(enabled_children) :
                                                its[x].start_date # EmptyStr}}
        ends   == {its[c].end_date : c \in {x \in Range(enabled_children) :
                                              its[x].end_date # EmptyStr}}
        new_start == IF starts # {} THEN strftime(Min({strptime(s) : s \in starts}))
                     ELSE its[i].start_date
        new_end   == IF ends # {} THEN strftime(Max({strptime(s) : s \in ends}))
                     ELSE its[i].end_date
    IN  IF enabled_children = << >> THEN st
        ELSE IF \E s \in starts \cup ends : ~Parsable(s)
        THEN [st EXCEPT !.error = TRUE]
        ELSE [st EXCEPT !.items[i].start_date = new_start,
                        !.items[i].end_date = new_end,
                        !.items[i].duration =
                            _get_business_days_between(new_start, new_end),
                        !.items[i].price = SumPrices(its, enabled_children)]

\* calculate_milestone_rollup that aggregates a milestone before its children
RECURSIVE calculate_milestone_rollup_ParentFirst(_, _)
calculate_milestone_rollup_ParentFirst(st, list) ==
    IF list = << >> \/ st.error THEN st
    ELSE LET i  == Head(list)
             it == st.items[i]
             st1 == IF it.enabled /\ it.is_milestone /\ it.children # << >>
                    THEN LET own == RollupItem(st, i)
                         IN  IF own.error THEN own
                             ELSE calculate_milestone_rollup_ParentFirst(own, it.children)
                    ELSE st
         IN  calculate_milestone_rollup_ParentFirst(st1, Tail(list))

\* calculate_milestone_rollup(items): children before parents, in list order;
\* an exception ends the whole pass
RECURSIVE calculate_milestone_rollup(_, _)
calculate_milestone_rollup(st, list) ==
    IF list = << >> \/ st.error THEN st
    ELSE LET i  == Head(list)
             it == st.items[i]
             st1 == IF it.enabled /\ it.is_milestone /\ it.children # << >>
                    THEN LET below == calculate_milestone_rollup(st, it.children)
                         IN  IF below.error THEN below ELSE RollupItem(below, i)
                    ELSE st
         IN  calculate_milestone_rollup(st1, Tail(list))

\* calculate_all_dates(unpin_all): the items, how the call ended ("ok", "cycle"
\* for the circular-dependency message, "KeyError" / "ValueError" for an
\* exception that leaves the method) and the scheduling order
calculate_all_dates(its0, idmap, roots, project_start, unpin_all) ==
    LET its1   == ClearDates(UnpinAll(its0, idmap, unpin_all), idmap)
        tasks  == AllTasks(its1, idmap)
        order  == TopoSort(its1, idmap)
        its2   == Propagate(its1, idmap, order, project_start)
        rolled == calculate_milestone_rollup([items |-> its2, error |-> FALSE], roots)
    IN  IF GraphKeyError(its1, idmap)
        THEN [items |-> its1, result |-> "KeyError", sorted_order |-> << >>]
        ELSE IF Len(order) # Len(tasks)
        THEN [items |-> its1, result |-> "cycle", sorted_order |-> order]
        ELSE [items |-> rolled.items,
              result |-> IF rolled.error THEN "ValueError" ELSE "ok",
              sorted_order |-> order]

-----------------------------------------------------------------------------
(* Inputs of the handlers *)

DurationInputs == 0..MaxDuration

LagInputs == (-MaxLag)..MaxLag

PriceInputs == {0, 100}

\* texts typed into the Start Date cell: empty, a Friday, a Saturday (unpadded)
StartDateInputs == {EmptyStr, strftime(11), ShortStr(12)}

\* texts written to the project start entry: Thursday 08/21/25 (the default),
\* the Saturday after it (unpadded), and a text that is no date
ProjectStartInputs == {strftime(3), ShortStr(5), BadStr}

\* Labor Day, Monday 09/01/25, is day 14
HolidaySets == {{}, {14}}

\* the items of the tree: the rows a handler can be invoked on
Ids == Range(item_id_map)

-----------------------------------------------------------------------------
(* The state after construction: a small template built the way               *)
(* create_template_structure builds the default one                           *)

\* set_parents and the children lists
WithChildren(item, children) == [item EXCEPT !.children = children]
WithParent(item, parent) == [item EXCEPT !.parent = parent]
WithPredecessor(item, p) == [item EXCEPT !.predecessor_id = p]

\* milestone 1 > (milestone 2 > (task 3, task 4), task 5); every task after the
\* first has the task created before it as predecessor
TemplateItems ==
    (1 :> WithChildren(ProposalItem(0, 0, TRUE), <<2, 5>>)) @@
    (2 :> WithParent(WithChildren(ProposalItem(0, 0, TRUE), <<3, 4>>), 1)) @@
    (3 :> WithParent(ProposalItem(2, 100, FALSE), 2)) @@
    (4 :> WithPredecessor(WithParent(ProposalItem(1, 250, FALSE), 2), 3)) @@
    (5 :> WithPredecessor(WithParent(ProposalItem(2, 400, FALSE), 1), 4))

\* no call of calculate_all_dates yet, or a handler that makes none
NoEntry == [unpin_all |-> FALSE, pinned |-> {}, start |-> [i \in 1..5 |-> EmptyStr]]

NoCall == [op |-> "none", date |-> EmptyStr, n |-> 0, out |-> EmptyStr, count |-> 0]

Init ==
    /\ items = TemplateItems
    /\ template_items = <<1>>
    /\ item_id_map = build_id_map(TemplateItems, <<1>>)
    /\ project_start_date = strftime(3)
    /\ last_project_start_date = strftime(3)
    /\ us_holidays \in HolidaySets
    /\ result = "none"
    /\ sorted_order = << >>
    /\ at_entry = NoEntry
    /\ cal = NoCall
    /\ steps = 0
    /\ task_counter = Len(TemplateItems)

-----------------------------------------------------------------------------
(* Handlers.  Each is the whole handler: its own edit of the items and the    *)
(* recompute and tree refresh it ends with.                                    *)

\* populate_tree rebuilds the id map from the forest
populate_tree(its) == build_id_map(its, template_items)

\* a handler that ends in self.calculate_all_dates(unpin_all) on the items its,
\* with the id map idmap and the project start text ps; populate_tree at the
\* end of a completed pass rebuilds the map
Recompute(its, idmap, ps, unpin_all) ==
    \E r \in {calculate_all_dates(its, idmap, template_items, ps, unpin_all)} :
        /\ items' = r.items
        /\ result' = r.result
        /\ sorted_order' = r.sorted_order
        /\ item_id_map' = IF r.result = "ok" THEN populate_tree(r.items) ELSE idmap
        /\ at_entry' = [unpin_all |-> unpin_all,
                        pinned |-> {i \in DOMAIN its : its[i].is_start_pinned},
                        start |-> [i \in DOMAIN its |->
                                     IF its[i].is_start_pinned THEN its[i].start_date
                                     ELSE EmptyStr]]

\* a handler that does not recompute
NoRecompute(its) ==
    /\ items' = its
    /\ result' = "none"
    /\ at_entry' = NoEntry
    /\ UNCHANGED <<sorted_order, item_id_map>>

\* the "Calculate Dates" button: calculate_all_dates(unpin_all=True)
CalculateDatesButton ==
    /\ Recompute(items, item_id_map, project_start_date, TRUE)
    /\ UNCHANGED <<template_items, project_start_date, last_project_start_date,
                   us_holidays, cal, task_counter>>

\* the exports refresh the dates first: calculate_all_dates()
ExportRecalculate ==
    /\ Recompute(items, item_id_map, project_start_date, FALSE)
    /\ UNCHANGED <<template_items, project_start_date, last_project_start_date,
                   us_holidays, cal, task_counter>>

\* handle_project_start_change, the write trace of the project start entry;
\* confirm is the answer to the "reset all manually entered start dates" dialog
handle_project_start_change(new_date, confirm) ==
    /\ IF ~Parsable(new_date)
       THEN /\ project_start_date' = new_date
            /\ NoRecompute(items)
            /\ UNCHANGED last_project_start_date
       ELSE IF \E i \in Range(item_id_map) : items[i].is_start_pinned
       THEN IF confirm
            THEN /\ project_start_date' = new_date
                 /\ last_project_start_date' = new_date
                 /\ Recompute(items, item_id_map, new_date, TRUE)
            ELSE /\ project_start_date' = last_project_start_date
                 /\ NoRecompute(items)
                 /\ UNCHANGED last_project_start_date
       ELSE /\ project_start_date' = new_date
            /\ last_project_start_date' = new_date
            /\ Recompute(items, item_id_map, new_date, FALSE)
    /\ UNCHANGED <<template_items, us_holidays, cal, task_counter>>

RECURSIVE Descendants(_, _)
Descendants(its, i) ==
    {i} \cup UNION {Descendants(its, c) : c \in Range(its[i].children)}

\* _toggle_children_enabled without the recursion into the children
_toggle_children_enabled_ItemOnly(its, i, enabled) ==
    [its EXCEPT ![i].enabled = enabled]

\* _toggle_children_enabled(item, enabled)
_toggle_children_enabled(its, i, enabled) ==
    [j \in DOMAIN its |->
        IF j \in Descendants(its, i) THEN [its[j] EXCEPT !.enabled = enabled] ELSE its[j]]

\* on_item_click / on_item_double_click on the Enabled column
ToggleEnabled(i) ==
    /\ \E its \in {_toggle_children_enabled(items, i, ~items[i].enabled)} :
           Recompute(its, populate_tree(its), project_start_date, FALSE)
    /\ UNCHANGED <<template_items, project_start_date, last_project_start_date,
                   us_holidays, cal, task_counter>>

\* save_edit of edit_cell for the Duration column (no recompute)
EditDuration(i, new_value) ==
    /\ ~items[i].is_milestone
    /\ NoRecompute([items EXCEPT ![i].duration = new_value])
    /\ UNCHANGED <<template_items, project_start_date, last_project_start_date,
                   us_holidays, cal, task_counter>>

\* save_edit of edit_cell for the Price column (no recompute)
EditPrice(i, new_value) ==
    /\ ~items[i].is_milestone
    /\ NoRecompute([items EXCEPT ![i].price = new_value])
    /\ UNCHANGED <<template_items, project_start_date, last_project_start_date,
                   us_holidays, cal, task_counter>>

\* save_edit of edit_cell for the Start Date column: a date pins the start,
\* an empty text unpins it; a text strptime rejects changes nothing
EditStartDate(i, new_value) ==
    /\ ~items[i].is_milestone
    /\ new_value = EmptyStr \/ Parsable(new_value)
    /\ Recompute([items EXCEPT ![i].start_date = new_value,
                               ![i].is_start_pinned = (new_value # EmptyStr)],
                 item_id_map, project_start_date, FALSE)
    /\ UNCHANGED <<template_items, project_start_date, last_project_start_date,
                   us_holidays, cal, task_counter>>

\* commit_and_close of edit_type_cell
EditType(i, sel) ==
    /\ ~items[i].is_milestone
    /\ items[i].predecessor_id # None
    /\ Recompute([items EXCEPT ![i].predecessor_type = sel],
                 item_id_map, project_start_date, FALSE)
    /\ UNCHANGED <<template_items, project_start_date, last_project_start_date,
                   us_holidays, cal, task_counter>>

\* possible_preds of edit_predecessor
PossiblePreds(i) == {p \in Range(item_id_map) : ~items[p].is_milestone /\ p # i}

\* save_predecessor of edit_predecessor
SavePredecessor(i, p, lag) ==
    /\ ~items[i].is_milestone
    /\ p \in PossiblePreds(i)
    /\ Recompute([items EXCEPT ![i].predecessor_id = p, ![i].lag = lag],
                 item_id_map, project_start_date, FALSE)
    /\ UNCHANGED <<template_items, project_start_date, last_project_start_date,
                   us_holidays, cal, task_counter>>

\* clear_predecessor of edit_predecessor
ClearPredecessor(i) ==
    /\ ~items[i].is_milestone
    /\ Recompute([items EXCEPT ![i].predecessor_id = None, ![i].is_start_pinned = FALSE],
                 item_id_map, project_start_date, FALSE)
    /\ UNCHANGED <<template_items, project_start_date, last_project_start_date,
                   us_holidays, cal, task_counter>>

\* on_link_drop that also unpins the task, as clear_predecessor does
on_link_drop_Unpins(start_item, end_item) ==
    /\ ~items[start_item].is_milestone /\ ~items[end_item].is_milestone
    /\ start_item # end_item
    /\ NoRecompute([items EXCEPT ![start_item].predecessor_id = end_item,
                                 ![start_item].predecessor_type = "FS",
                                 ![start_item].lag = 0,
                                 ![start_item].is_start_pinned = FALSE])
    /\ UNCHANGED <<template_items, project_start_date, last_project_start_date,
                   us_holidays, cal, task_counter>>

\* on_link_drop: Ctrl-drag from start_item to end_item (no recompute)
on_link_drop(start_item, end_item) ==
    /\ ~items[start_item].is_milestone /\ ~items[end_item].is_milestone
    /\ start_item # end_item
    /\ NoRecompute([items EXCEPT ![start_item].predecessor_id = end_item,
                                 ![start_item].predecessor_type = "FS",
                                 ![start_item].lag = 0])
    /\ UNCHANGED <<template_items, project_start_date, last_project_start_date,
                   us_holidays, cal, task_counter>>

\* clear_all_predecessors, confirmed (no recompute)
clear_all_predecessors ==
    /\ NoRecompute([i \in DOMAIN items |->
                       IF i \in Range(item_id_map)
                       THEN [items[i] EXCEPT !.predecessor_id = None] ELSE items[i]])
    /\ UNCHANGED <<template_items, project_start_date, last_project_start_date,
                   us_holidays, cal, task_counter>>

\* ordered_tasks[k - 1].id for the task at place k of ordered_tasks, None for
\* the first and for a task that is not in ordered_tasks
PreviousInOrder(ordered_tasks, i) ==
    IF \E k \in 2..Len(ordered_tasks) : ordered_tasks[k] = i
    THEN ordered_tasks[(CHOOSE k \in 2..Len(ordered_tasks) : ordered_tasks[k] = i) - 1]
    ELSE None

\* reset_predecessors, confirmed: every task loses its link, the enabled tasks
\* are chained in tree order, then calculate_all_dates()
reset_predecessors ==
    /\ \E its \in {[i \in DOMAIN items |->
                       IF i \in Range(item_id_map) /\ ~items[i].is_milestone
                       THEN [items[i] EXCEPT !.predecessor_id =
                                PreviousInOrder(AllTasks(items, item_id_map), i)]
                       ELSE items[i]]} :
           Recompute(its, item_id_map, project_start_date, FALSE)
    /\ UNCHANGED <<template_items, project_start_date, last_project_start_date,
                   us_holidays, cal, task_counter>>

\* the id of a new item taken from the number of rows of the tree
new_id_FromTreeSize == Len(item_id_map) + 1

\* self.task_counter += 1; new_id = self.task_counter
new_id == task_counter + 1

\* add_item of the "Add Custom Item" dialog, opened with the row parent_item
\* selected (None: no selection); populate_tree rebuilds the map, no recompute
add_item(parent_item, is_new_section, duration, price, is_milestone) ==
    /\ task_counter' = new_id
    /\ \E new_item \in {IF is_new_section
                        THEN ProposalItem(duration, price, TRUE)
                        ELSE WithParent(ProposalItem(duration, price, is_milestone),
                                        parent_item)},
          top \in {is_new_section \/ parent_item = None} :
         \E its \in {[i \in DOMAIN items \cup {new_id} |->
                         IF i = new_id THEN new_item
                         ELSE IF i = parent_item /\ ~top
                         THEN [items[i] EXCEPT !.children = Append(@, new_id)]
                         ELSE items[i]]},
            roots \in {IF top THEN Append(template_items, new_id)
                       ELSE template_items} :
             /\ items' = its
             /\ template_items' = roots
             /\ item_id_map' = build_id_map(its, roots)
    /\ result' = "none"
    /\ at_entry' = NoEntry
    /\ UNCHANGED <<sorted_order, project_start_date, last_project_start_date,
                   us_holidays, cal>>

\* list.remove(x)
Remove(list, x) == SelectSeq(list, LAMBDA y : y # x)

\* delete_item, confirmed, on the selected row: the item leaves its parent's
\* children (or the top-level list) and populate_tree rebuilds the map; no
\* recompute, and links to the deleted items stay as they are
delete_item(i) ==
    /\ \E its \in {IF items[i].parent # None
                    THEN [items EXCEPT ![items[i].parent].children = Remove(@, i)]
                    ELSE items},
          roots \in {IF items[i].parent # None THEN template_items
                     ELSE Remove(template_items, i)} :
           /\ items' = its
           /\ template_items' = roots
           /\ item_id_map' = build_id_map(its, roots)
    /\ result' = "none"
    /\ at_entry' = NoEntry
    /\ UNCHANGED <<sorted_order, project_start_date, last_project_start_date,
                   us_holidays, cal, task_counter>>

\* one row of the "Tasks" sheet of a saved template (the columns the loader
\* reads; Lag is at its default)
TaskRow(id, duration, price, is_milestone, parent_id, pred_id, enabled, pinned) ==
    [ID |-> id, Duration |-> duration, Price |-> price,
     Is_Milestone |-> is_milestone, Parent_ID |-> parent_id,
     Predecessor_ID |-> pred_id, Enabled |-> enabled, Lag |-> 0,
     Is_Start_Pinned |-> pinned]

\* workbooks offered to the file dialog: the template as it is saved, with the
\* Predecessor ID cells of tasks 3 and 5 and the Enabled and Is Start Pinned
\* cells of task 4 drawn; a Predecessor ID may name a milestone row, the
\* sheet has no column for the dates, and "Last Task ID" is the saved counter
Workbooks ==
    {[project_start |-> strftime(3), last_task_id |-> 5,
      rows |-> <<TaskRow(1, 0, 0, TRUE, None, None, TRUE, FALSE),
                 TaskRow(2, 0, 0, TRUE, 1, None, TRUE, FALSE),
                 TaskRow(3, 2, 100, FALSE, 2, pred3, TRUE, FALSE),
                 TaskRow(4, 1, 250, FALSE, 2, 3, en4, pin4),
                 TaskRow(5, 2, 400, FALSE, 1, pred5, TRUE, FALSE)>>] :
        pred3 \in {None, 1}, pred5 \in {None, 4, 2}, en4 \in BOOLEAN,
        pin4 \in BOOLEAN}

\* the ids of a list of rows, in row order
RowIds(rows) == [k \in 1..Len(rows) |-> rows[k].ID]

\* the item the loader builds from a row of the sheet; rows is the whole sheet
LoadedItem(rows, row) ==
    LET ids == Range(RowIds(rows))
    IN  [ProposalItem(row.Duration, row.Price, row.Is_Milestone) EXCEPT
           !.enabled = row.Enabled,
           !.predecessor_id = row.Predecessor_ID,
           !.lag = row.Lag,
           !.is_start_pinned = row.Is_Start_Pinned,
           !.parent = IF row.Parent_ID \in ids THEN row.Parent_ID ELSE None,
           !.children = RowIds(SelectSeq(rows, LAMBDA r : r.Parent_ID = row.ID))]

\* load_template_excel with the workbook wb chosen: setting the project start
\* entry runs handle_project_start_change on the tree still loaded (confirm is
\* the answer to its dialog), then the tree is replaced by the items of the
\* sheet and populate_tree rebuilds the map; the loaded items are not
\* recomputed
load_template_excel(wb, confirm) ==
    /\ IF ~Parsable(wb.project_start)
       THEN /\ project_start_date' = wb.project_start
            /\ UNCHANGED last_project_start_date
       ELSE IF (\E i \in Range(item_id_map) : items[i].is_start_pinned) /\ ~confirm
       THEN /\ project_start_date' = last_project_start_date
            /\ UNCHANGED last_project_start_date
       ELSE /\ project_start_date' = wb.project_start
            /\ last_project_start_date' = wb.project_start
    /\ \E its \in {[id \in Range(RowIds(wb.rows)) |->
                      LoadedItem(wb.rows,
                                 CHOOSE r \in Range(wb.rows) : r.ID = id)]},
          roots \in {RowIds(SelectSeq(wb.rows,
                         LAMBDA r : r.Parent_ID \notin Range(RowIds(wb.rows))))} :
           /\ items' = its
           /\ template_items' = roots
           /\ item_id_map' = build_id_map(its, roots)
    /\ task_counter' = wb.last_task_id
    /\ result' = "none"
    /\ at_entry' = NoEntry
    /\ UNCHANGED <<sorted_order, us_holidays, cal>>

\* the row _flatten_items of save_template_excel makes of the item id, met in
\* the children list of parent_id (None for a top-level item)
SavedRow(its, id, parent_id) ==
    [ID |-> id, Duration |-> its[id].duration, Price |-> its[id].price,
     Is_Milestone |-> its[id].is_milestone, Parent_ID |-> parent_id,
     Predecessor_ID |-> its[id].predecessor_id, Enabled |-> its[id].enabled,
     Lag |-> its[id].lag, Is_Start_Pinned |-> its[id].is_start_pinned]

\* _flatten_items: the rows of a list of items and of their descendants, in
\* pre-order
RECURSIVE _flatten_items(_, _, _)
_flatten_items(its, list, parent_id) ==
    ConcatAll([k \in 1..Len(list) |->
                 <<SavedRow(its, list[k], parent_id)>>
                     \o _flatten_items(its, its[list[k]].children, list[k])])

\* save_template_excel: the workbook written from the current state; the
\* program's own state is left as it is
save_template_excel ==
    [project_start |-> project_start_date, last_task_id |-> task_counter,
     rows |-> _flatten_items(items, template_items, None)]

\* save_template_excel followed by load_template_excel of the file written
SaveThenLoad(confirm) == load_template_excel(save_template_excel, confirm)

-----------------------------------------------------------------------------
(* The import of a project schedule: flatten_to_template_rows,                *)
(* push_into_generator and on_parse_and_populate                              *)

PHASES == <<"30%", "60%", "90%", "IFC">>

\* the categories in the order build_category is called
Categories == <<"Civil", "Electrical", "Structural", "Substation", "BESS">>

review_pairs ==
    {<<"Civil", "30%">>, <<"Civil", "60%">>,
     <<"Electrical", "30%">>, <<"Electrical", "60%">>}

hours_per_day == 8

\* a parsed task of a bucket: its hours, the price _price_of selects, and
\* whether its name contains "plan set"
ParsedTask(hours, price, plan_set) ==
    [hours |-> hours, price |-> price, plan_set |-> plan_set]

\* math.ceil(hours / hours_per_day)
dur_days(t) == (t.hours + hours_per_day - 1) \div hours_per_day

NoTasks == [cat \in Range(Categories) |-> [phase \in Range(PHASES) |-> << >>]]

\* the buckets build_model_rows may return: up to two Civil 30% tasks (the
\* second one a plan set), and at most one task in Civil 60%, Electrical 60%,
\* Electrical 90% and Structural 30%
BucketInputs ==
    {[NoTasks EXCEPT !["Civil"]["30%"] = c30, !["Civil"]["60%"] = c60,
                     !["Electrical"]["60%"] = e60, !["Electrical"]["90%"] = e90,
                     !["Structural"]["30%"] = s30] :
        c30 \in {<< >>, <<ParsedTask(8, 100, FALSE)>>,
                 <<ParsedTask(12, 100, FALSE), ParsedTask(8, 250, TRUE)>>},
        c60 \in {<< >>, <<ParsedTask(8, 100, FALSE)>>},
        e60 \in {<< >>, <<ParsedTask(12, 400, FALSE)>>},
        e90 \in {<< >>, <<ParsedTask(0, 100, FALSE)>>},
        s30 \in {<< >>, <<ParsedTask(8, 250, FALSE)>>}}

\* the local state of flatten_to_template_rows
FlattenStart ==
    [rows_out |-> << >>, next_id |-> 1, e60_first_task_id |-> None,
     structural_first_task_applied |-> FALSE]

\* tid = next_id; next_id += 1; add_item(tid, ...)
NewRow(st, duration, price, is_milestone, pred_id, parent_id, enabled) ==
    [st EXCEPT !.rows_out = Append(@, TaskRow(st.next_id, duration, price,
                                              is_milestone, parent_id, pred_id,
                                              enabled, FALSE)),
               !.next_id = @ + 1]

\* the loop over the four children of Project Initiation
RECURSIVE InitiationChildren(_, _, _, _)
InitiationChildren(st, durations, last_pi_child, pi_id) ==
    IF durations = << >> THEN st
    ELSE InitiationChildren(
             NewRow(st, Head(durations), 0, FALSE, last_pi_child, pi_id, TRUE),
             Tail(durations), st.next_id, pi_id)

\* _reorder_for_30: the plan sets first, in a stable order
_reorder_for_30(tasks, phase) ==
    IF phase # "30%" THEN tasks
    ELSE SelectSeq(tasks, LAMBDA t : t.plan_set)
         \o SelectSeq(tasks, LAMBDA t : ~t.plan_set)

\* "for t in tasks": the tasks of a phase, each after the one before
RECURSIVE PhaseTasks(_, _, _, _)
PhaseTasks(st, tasks, last_task_id, ms_id) ==
    IF tasks = << >> THEN st
    ELSE PhaseTasks(
             NewRow(st, dur_days(Head(tasks)), Head(tasks).price, FALSE,
                    last_task_id, ms_id, TRUE),
             Tail(tasks), st.next_id, ms_id)

\* rows_out[idx]["Predecessor ID"] = pred_id for the row with the id
SetPredecessor(rows, id, pred_id) ==
    [k \in 1..Len(rows) |->
        IF rows[k].ID = id THEN [rows[k] EXCEPT !.Predecessor_ID = pred_id]
        ELSE rows[k]]

\* rows_out[i]["Enabled"] = True for the row with the id
SetEnabled(rows, id) ==
    [k \in 1..Len(rows) |->
        IF rows[k].ID = id THEN [rows[k] EXCEPT !.Enabled = TRUE] ELSE rows[k]]

\* the body of "for phase in PHASES" for a phase with tasks; pi holds
\* last_pi_child, civil_dd_id and electrical_dd_id.  Returns the local state
\* and the new prev_phase_last_id.
BuildPhase(st, cat_key, phase, raw, cat_id, prev_phase_last_id, pi) ==
    LET tasks == _reorder_for_30(raw, phase)
        ms_id == st.next_id
        s1 == NewRow(st, 0, 0, TRUE, None, cat_id, TRUE)
        first_task_id == s1.next_id
        s2 == PhaseTasks(s1, tasks, None, ms_id)
        last_task == s2.next_id - 1
        reviewed == <<cat_key, phase>> \in review_pairs
        s3 == IF reviewed THEN NewRow(s2, 10, 0, FALSE, last_task, ms_id, TRUE)
              ELSE s2
        last_task_id == s3.next_id - 1
        e60 == IF /\ cat_key = "Electrical"
                  /\ phase \in {"60%", "90%"}
                  /\ s3.e60_first_task_id = None
               THEN first_task_id ELSE s3.e60_first_task_id
        structural == /\ cat_key = "Structural"
                      /\ ~s3.structural_first_task_applied
                      /\ e60 # None
        pred == IF structural THEN e60
                ELSE IF prev_phase_last_id # None THEN prev_phase_last_id
                ELSE IF phase = "30%"
                THEN IF cat_key = "Civil" /\ pi.civil_dd_id # None
                     THEN pi.civil_dd_id
                     ELSE IF cat_key = "Electrical" /\ pi.electrical_dd_id # None
                     THEN pi.electrical_dd_id
                     ELSE pi.last_pi_child
                ELSE pi.last_pi_child
    IN  [st |-> [s3 EXCEPT
                   !.rows_out = SetPredecessor(@, first_task_id, pred),
                   !.e60_first_task_id = e60,
                   !.structural_first_task_applied = @ \/ structural],
         prev_phase_last_id |-> last_task_id]

\* "for phase in PHASES" of build_category
RECURSIVE BuildPhases(_, _, _, _, _, _, _)
BuildPhases(st, cat_key, phases, buckets, cat_id, prev_phase_last_id, pi) ==
    IF phases = << >> THEN st
    ELSE LET raw == buckets[cat_key][Head(phases)]
         IN  IF raw = << >>
             THEN BuildPhases(st, cat_key, Tail(phases), buckets, cat_id,
                              prev_phase_last_id, pi)
             ELSE LET b == BuildPhase(st, cat_key, Head(phases), raw, cat_id,
                                      prev_phase_last_id, pi)
                  IN  BuildPhases(b.st, cat_key, Tail(phases), buckets, cat_id,
                                  b.prev_phase_last_id, pi)

\* build_category: the category milestone, disabled until a phase is added
build_category(st, cat_key, buckets, pi) ==
    LET cat_id == st.next_id
        s1 == NewRow(st, 0, 0, TRUE, None, None, FALSE)
        s2 == BuildPhases(s1, cat_key, PHASES, buckets, cat_id, None, pi)
        added_any == \E k \in 1..Len(PHASES) : buckets[cat_key][PHASES[k]] # << >>
    IN  IF added_any THEN [s2 EXCEPT !.rows_out = SetEnabled(@, cat_id)] ELSE s2

RECURSIVE BuildCategories(_, _, _, _)
BuildCategories(st, cats, buckets, pi) ==
    IF cats = << >> THEN st
    ELSE BuildCategories(build_category(st, Head(cats), buckets, pi), Tail(cats),
                         buckets, pi)

\* flatten_to_template_rows: Project Initiation and its four children, the
\* categories, Project Closeout
flatten_to_template_rows(buckets) ==
    LET pi_id == FlattenStart.next_id
        s1 == NewRow(FlattenStart, 0, 0, TRUE, None, None, TRUE)
        s2 == InitiationChildren(s1, <<0, 0, 1, 1>>, None, pi_id)
        pi == [last_pi_child |-> s2.next_id - 1,
               civil_dd_id |-> s2.next_id - 2,
               electrical_dd_id |-> s2.next_id - 1]
        s3 == BuildCategories(s2, Categories, buckets, pi)
        s4 == NewRow(s3, 0, 0, TRUE, None, None, TRUE)
    IN  s4.rows_out

\* the item push_into_generator builds from a row; rows is the whole list
PushedItem(rows, row) ==
    LET ids == Range(RowIds(rows))
    IN  [ProposalItem(row.Duration, row.Price, row.Is_Milestone) EXCEPT
           !.enabled = row.Enabled,
           !.predecessor_id = row.Predecessor_ID,
           !.lag = IF row.Predecessor_ID # None THEN row.Lag ELSE 0,
           !.parent = IF row.Parent_ID \in ids THEN row.Parent_ID ELSE None,
           !.children = RowIds(SelectSeq(rows, LAMBDA r : r.Parent_ID = row.ID))]

\* max(gen.item_id_map.keys()) if gen.item_id_map else 0
MaxKey(ids) == IF ids = {} THEN 0 ELSE Max(ids)

\* on_parse_and_populate with a workbook that parses to buckets and a project
\* date info_date (EmptyStr: none found): push_into_generator replaces the
\* tree, sets the counter to the largest id and sets the project start entry,
\* whose trace runs handle_project_start_change on the new tree; then
\* calculate_all_dates()
on_parse_and_populate(buckets, info_date) ==
    \E rows \in {flatten_to_template_rows(buckets)} :
      \E its \in {[id \in Range(RowIds(rows)) |->
                     PushedItem(rows, CHOOSE r \in Range(rows) : r.ID = id)]},
         roots \in {RowIds(SelectSeq(rows, LAMBDA r :
                                        r.Parent_ID \notin Range(RowIds(rows))))},
         ps \in {IF info_date = EmptyStr THEN project_start_date ELSE info_date} :
        /\ template_items' = roots
        /\ task_counter' = MaxKey(Range(RowIds(rows)))
        /\ project_start_date' = ps
        /\ last_project_start_date' =
               IF info_date = EmptyStr THEN last_project_start_date ELSE info_date
        /\ \E traced \in {IF info_date = EmptyStr THEN its
                          ELSE calculate_all_dates(its, RowIds(rows), roots, ps,
                                                   FALSE).items} :
             \E r \in {calculate_all_dates(traced, RowIds(rows), roots, ps, FALSE)} :
               /\ items' = r.items
               /\ result' = r.result
               /\ sorted_order' = r.sorted_order
               /\ item_id_map' = IF r.result = "ok"
                                 THEN build_id_map(r.items, roots)
                                 ELSE RowIds(rows)
               /\ at_entry' = [unpin_all |-> FALSE, pinned |-> {},
                               start |-> [i \in DOMAIN its |-> EmptyStr]]
        /\ UNCHANGED <<us_holidays, cal>>

\* a direct call of _add_business_days
CallAddBusinessDays(date, n) ==
    /\ cal' = [op |-> "add", date |-> date, n |-> n,
               out |-> _add_business_days(date, n), count |-> 0]
    /\ UNCHANGED <<items, template_items, item_id_map, project_start_date,
                   last_project_start_date, us_holidays, result, sorted_order,
                   at_entry, task_counter>>

\* _get_business_days_between(d, _add_business_days(d, n)) on the last call
CallBusinessDaysBetween ==
    /\ cal.op = "add"
    /\ cal' = [cal EXCEPT !.op = "between",
                          !.count = _get_business_days_between(cal.date, cal.out)]
    /\ UNCHANGED <<items, template_items, item_id_map, project_start_date,
                   last_project_start_date, us_holidays, result, sorted_order,
                   at_entry, task_counter>>

-----------------------------------------------------------------------------
(* Spec: every handler, on every item, at most MaxSteps handlers in a row.    *)

Step == steps < MaxSteps /\ steps' = steps + 1

Next ==
    \/ Step /\ CalculateDatesButton
    \/ Step /\ ExportRecalculate
    \/ Step /\ \E d \in ProjectStartInputs, confirm \in BOOLEAN :
                   handle_project_start_change(d, confirm)
    \/ Step /\ \E i \in Ids : ToggleEnabled(i)
    \/ Step /\ \E i \in Ids, d \in DurationInputs : EditDuration(i, d)
    \/ Step /\ \E i \in Ids, v \in PriceInputs : EditPrice(i, v)
    \/ Step /\ \E i \in Ids, s \in StartDateInputs : EditStartDate(i, s)
    \/ Step /\ \E i \in Ids, t \in PredecessorTypes : EditType(i, t)
    \/ Step /\ \E i \in Ids, p \in Ids, l \in LagInputs : SavePredecessor(i, p, l)
    \/ Step /\ \E i \in Ids : ClearPredecessor(i)
    \/ Step /\ \E i \in Ids, j \in Ids : on_link_drop(i, j)
    \/ Step /\ clear_all_predecessors
    \/ Step /\ reset_predecessors
    \/ Step /\ \E i \in Ids : delete_item(i)

Spec == Init /\ [][Next]_vars

-----------------------------------------------------------------------------
(* SpecCal: the calendar functions called directly on drawn inputs.           *)

CalDates == {strftime(d) : d \in 0..MaxCalDay}

CalDayCounts == (-MaxCalDays)..MaxCalDays

\* no holiday; Labor Day; a Friday and the Monday after it
CalHolidaySets == {{}, {14}, {11, 14}}

InitCal ==
    /\ items = TemplateItems
    /\ template_items = <<1>>
    /\ item_id_map = build_id_map(TemplateItems, <<1>>)
    /\ project_start_date = strftime(3)
    /\ last_project_start_date = strftime(3)
    /\ us_holidays \in CalHolidaySets
    /\ result = "none"
    /\ sorted_order = << >>
    /\ at_entry = NoEntry
    /\ cal = NoCall
    /\ steps = 0
    /\ task_counter = Len(TemplateItems)

NextCal ==
    \/ UNCHANGED steps /\ \E d \in CalDates, n \in CalDayCounts : CallAddBusinessDays(d, n)
    \/ UNCHANGED steps /\ CallBusinessDaysBetween

SpecCal == InitCal /\ [][NextCal]_vars

-----------------------------------------------------------------------------
(* SpecGraph: the predecessor links and the enabled flags of the tasks of the *)
(* template, edited without bound.                                            *)

InitGraph == Init /\ us_holidays = {14}

NextGraph ==
    \/ UNCHANGED steps /\ CalculateDatesButton
    \/ UNCHANGED steps /\ ExportRecalculate
    \/ UNCHANGED steps /\ \E i \in Ids : ~items[i].is_milestone /\ ToggleEnabled(i)
    \/ UNCHANGED steps /\ \E i \in Ids, p \in Ids : SavePredecessor(i, p, items[i].lag)
    \/ UNCHANGED steps /\ \E i \in Ids : ClearPredecessor(i)

SpecGraph == InitGraph /\ [][NextGraph]_vars

-----------------------------------------------------------------------------
(* SpecDates: the chain 3 <- 4 <- 5 of the template, task 4 of drawn duration; *)
(* the link of task 4, the pinned start of task 4 and the project start are   *)
(* edited without bound.                                                      *)

InitDates ==
    /\ \E d4 \in DurationInputs : items = [TemplateItems EXCEPT ![4].duration = d4]
    /\ template_items = <<1>>
    /\ item_id_map = build_id_map(TemplateItems, <<1>>)
    /\ project_start_date = strftime(3)
    /\ last_project_start_date = strftime(3)
    /\ us_holidays = {14}
    /\ result = "none"
    /\ sorted_order = << >>
    /\ at_entry = NoEntry
    /\ cal = NoCall
    /\ steps = 0
    /\ task_counter = Len(TemplateItems)

NextDates ==
    \/ UNCHANGED steps /\ CalculateDatesButton
    \/ UNCHANGED steps /\ ExportRecalculate
    \/ UNCHANGED steps /\ \E d \in ProjectStartInputs, confirm \in BOOLEAN :
                              handle_project_start_change(d, confirm)
    \/ UNCHANGED steps /\ \E t \in PredecessorTypes : EditType(4, t)
    \/ UNCHANGED steps /\ \E l \in LagInputs : SavePredecessor(4, 3, l)
    \/ UNCHANGED steps /\ \E s \in StartDateInputs : EditStartDate(4, s)

SpecDates == InitDates /\ [][NextDates]_vars

-----------------------------------------------------------------------------
(* SpecRollup: the enabled flags and the pinned starts of the template,       *)
(* edited without bound.                                                      *)

\* start texts typed for task 4: none, a Monday before the project start, and
\* an unpadded Saturday after it
RollupStartInputs == {EmptyStr, strftime(0), ShortStr(12)}

NextRollup ==
    \/ UNCHANGED steps /\ CalculateDatesButton
    \/ UNCHANGED steps /\ ExportRecalculate
    \/ UNCHANGED steps /\ \E i \in Ids : ToggleEnabled(i)
    \/ UNCHANGED steps /\ \E s \in RollupStartInputs : EditStartDate(4, s)

SpecRollup == InitGraph /\ [][NextRollup]_vars

-----------------------------------------------------------------------------
(* SpecFinish: the chain 3 <- 4 <- 5 around Labor Day; the types of both      *)
(* links, the lag of the first, and the project start are edited without      *)
(* bound, for every drawn duration of task 4.                                 *)

\* project starts before Labor Day (09/01/25, day 14): Thursday 08/28/25,
\* Friday 08/29/25 and, unpadded, Saturday 08/30/25
FinishProjectStarts == {strftime(10), strftime(11), ShortStr(12)}

InitFinish ==
    /\ \E d4 \in DurationInputs : items = [TemplateItems EXCEPT ![4].duration = d4]
    /\ template_items = <<1>>
    /\ item_id_map = build_id_map(TemplateItems, <<1>>)
    /\ project_start_date \in FinishProjectStarts
    /\ last_project_start_date = project_start_date
    /\ us_holidays \in HolidaySets
    /\ result = "none"
    /\ sorted_order = << >>
    /\ at_entry = NoEntry
    /\ cal = NoCall
    /\ steps = 0
    /\ task_counter = Len(TemplateItems)

NextFinish ==
    \/ UNCHANGED steps /\ CalculateDatesButton
    \/ UNCHANGED steps /\ ExportRecalculate
    \/ UNCHANGED steps /\ \E d \in FinishProjectStarts, confirm \in BOOLEAN :
                              handle_project_start_change(d, confirm)
    \/ UNCHANGED steps /\ \E i \in {4, 5}, t \in PredecessorTypes : EditType(i, t)
    \/ UNCHANGED steps /\ \E l \in LagInputs : SavePredecessor(4, 3, l)

SpecFinish == InitFinish /\ [][NextFinish]_vars

-----------------------------------------------------------------------------
(* SpecIds: from the default template or, before the first addition, from an  *)
(* imported schedule, at most MaxSteps items are added, as sections or under  *)
(* a top-level row, and the newest items are deleted without bound.           *)

\* the imported schedules: an empty one and one with a Civil 30% task
IdsBucketInputs ==
    {NoTasks, [NoTasks EXCEPT !["Civil"]["30%"] = <<ParsedTask(8, 100, FALSE)>>]}

NextIds ==
    \/ Step /\ \E parent_item \in Range(template_items) \cup {None},
                  is_new_section \in BOOLEAN, is_milestone \in BOOLEAN :
                  add_item(parent_item, is_new_section, 1, 100, is_milestone)
    \/ UNCHANGED steps /\ \E i \in Ids : i >= task_counter - 1 /\ delete_item(i)
    \/ steps = 0 /\ UNCHANGED steps
                 /\ \E buckets \in IdsBucketInputs :
                       on_parse_and_populate(buckets, EmptyStr)

SpecIds == InitGraph /\ [][NextIds]_vars

-----------------------------------------------------------------------------
(* SpecImport: a template built by create_template_structure, then project    *)
(* schedules imported and recomputed without bound.                           *)

\* the project date found in the imported workbook: none, or Thursday 08/28/25
InfoDates == {EmptyStr, strftime(10)}

\* one call of create_and_collect_task, and the item (by the number of its own
\* call; None: the returned top-level list) whose children list receives it
TemplateCall(duration, price, is_milestone, parent) ==
    [duration |-> duration, price |-> price, is_milestone |-> is_milestone,
     parent |-> parent]

\* the calls, in the order they are made, for the small template and for two
\* other shapes: a milestone created between two tasks, and two top-level items
TemplateCalls ==
    <<TemplateCall(0, 0, TRUE, None), TemplateCall(0, 0, TRUE, 1),
      TemplateCall(2, 100, FALSE, 2), TemplateCall(1, 250, FALSE, 2),
      TemplateCall(2, 400, FALSE, 1)>>

TemplateShapes ==
    {TemplateCalls,
     <<TemplateCall(0, 0, TRUE, None), TemplateCall(1, 100, FALSE, 1),
       TemplateCall(0, 0, TRUE, 1), TemplateCall(2, 250, FALSE, 3),
       TemplateCall(0, 400, FALSE, 1)>>,
     <<TemplateCall(0, 0, TRUE, None), TemplateCall(0, 0, FALSE, 1),
       TemplateCall(1, 100, FALSE, 1), TemplateCall(0, 0, TRUE, None),
       TemplateCall(2, 250, FALSE, 4)>>}

\* the ids of the calls whose item goes to the children list of parent
ChildrenOf(calls, parent) ==
    SelectSeq([k \in 1..Len(calls) |-> k], LAMBDA k : calls[k].parent = parent)

\* all_tasks: the non-milestone items in the order of their creation
all_tasks(calls) ==
    SelectSeq([k \in 1..Len(calls) |-> k], LAMBDA k : ~calls[k].is_milestone)

\* a construction that links every task to the task created after it
create_template_structure_LinksNext(calls) ==
    [id \in 1..Len(calls) |->
        LET tasks == all_tasks(calls)
            item == WithParent(WithChildren(
                        ProposalItem(calls[id].duration, calls[id].price,
                                     calls[id].is_milestone),
                        ChildrenOf(calls, id)), calls[id].parent)
        IN  IF \E i \in 1..(Len(tasks) - 1) : tasks[i] = id
            THEN WithPredecessor(item,
                     tasks[(CHOOSE i \in 1..(Len(tasks) - 1) : tasks[i] = id) + 1])
            ELSE item]

\* create_template_structure: the task counter starts at 0, so the k-th call
\* makes the item with id k; set_parents; all_tasks[i] gets all_tasks[i-1] as
\* its predecessor
create_template_structure(calls) ==
    [id \in 1..Len(calls) |->
        LET tasks == all_tasks(calls)
            item == WithParent(WithChildren(
                        ProposalItem(calls[id].duration, calls[id].price,
                                     calls[id].is_milestone),
                        ChildrenOf(calls, id)), calls[id].parent)
        IN  IF \E i \in 2..Len(tasks) : tasks[i] = id
            THEN WithPredecessor(item,
                     tasks[(CHOOSE i \in 2..Len(tasks) : tasks[i] = id) - 1])
            ELSE item]

\* __init__: template_items = create_template_structure(), then populate_tree
InitImport ==
    \E calls \in TemplateShapes :
        /\ items = create_template_structure(calls)
        /\ template_items = ChildrenOf(calls, None)
        /\ item_id_map = build_id_map(create_template_structure(calls),
                                      ChildrenOf(calls, None))
        /\ project_start_date = strftime(3)
        /\ last_project_start_date = strftime(3)
        /\ us_holidays \in HolidaySets
        /\ result = "none"
        /\ sorted_order = << >>
        /\ at_entry = NoEntry
        /\ cal = NoCall
        /\ steps = 0
        /\ task_counter = Len(calls)

NextImport ==
    \/ UNCHANGED steps /\ ExportRecalculate
    \/ UNCHANGED steps /\ \E buckets \in BucketInputs :
                              on_parse_and_populate(buckets, EmptyStr)
    \/ UNCHANGED steps /\ \E buckets \in IdsBucketInputs, info_date \in InfoDates :
                              on_parse_and_populate(buckets, info_date)

SpecImport == InitImport /\ [][NextImport]_vars

-----------------------------------------------------------------------------
(* SpecPrice: the enabled flags of all items and the prices of the tasks of   *)
(* the template, edited without bound.                                        *)

NextPrice ==
    \/ UNCHANGED steps /\ ExportRecalculate
    \/ UNCHANGED steps /\ \E i \in Ids : ToggleEnabled(i)
    \/ UNCHANGED steps /\ \E i \in Ids, p \in PriceInputs : EditPrice(i, p)

SpecPrice == InitGraph /\ [][NextPrice]_vars

-----------------------------------------------------------------------------
(* SpecLoad: templates loaded from workbooks, recomputed and toggled without  *)
(* bound.                                                                     *)

NextLoad ==
    \/ UNCHANGED steps /\ CalculateDatesButton
    \/ UNCHANGED steps /\ ExportRecalculate
    \/ UNCHANGED steps /\ \E i \in Ids : ToggleEnabled(i)
    \/ UNCHANGED steps /\ \E wb \in Workbooks, confirm \in BOOLEAN :
                              load_template_excel(wb, confirm)

SpecLoad == InitGraph /\ [][NextLoad]_vars

-----------------------------------------------------------------------------
(* SpecSave: the link of task 4 and its pinned start edited, tasks 3 and 5    *)
(* toggled, and the template saved to a workbook and loaded back, without     *)
(* bound.                                                                     *)

NextSave ==
    \/ UNCHANGED steps /\ ExportRecalculate
    \/ UNCHANGED steps /\ \E t \in PredecessorTypes : EditType(4, t)
    \/ UNCHANGED steps /\ \E l \in LagInputs : SavePredecessor(4, 3, l)
    \/ UNCHANGED steps /\ \E s \in StartDateInputs : EditStartDate(4, s)
    \/ UNCHANGED steps /\ \E i \in {3, 5} : ToggleEnabled(i)
    \/ UNCHANGED steps /\ \E confirm \in BOOLEAN : SaveThenLoad(confirm)

SpecSave == InitGraph /\ [][NextSave]_vars

-----------------------------------------------------------------------------
(* The dependency graph, read off the items without running the sort *)

\* the enabled non-milestone tasks of the tree
GraphNodes == {i \in Range(item_id_map) : items[i].enabled /\ ~items[i].is_milestone}

\* the target of the edge leaving task i, if it has one
EdgeFrom(i) ==
    IF items[i].predecessor_id # None /\ items[i].predecessor_id \in GraphNodes
    THEN {items[i].predecessor_id} ELSE {}

\* the tasks reached from the set S by one to k edges
RECURSIVE ReachedFrom(_, _)
ReachedFrom(S, k) ==
    IF k = 0 THEN {}
    ELSE LET next == UNION {EdgeFrom(i) : i \in S}
         IN  next \cup ReachedFrom(next, k - 1)

HasCycle == \E i \in GraphNodes : i \in ReachedFrom({i}, Cardinality(GraphNodes))

-----------------------------------------------------------------------------
(* Claims *)

\* C1 (as the claim states it): a call that reports a circular dependency
\* leaves the start_date and the end_date of every item as they were before
\* the call.
C1_DatesKeptOnCycle ==
    [][result' = "cycle" =>
          \A i \in Ids : /\ items'[i].start_date = items[i].start_date
                         /\ items'[i].end_date = items[i].end_date]_vars

\* C2: a call reports a circular dependency exactly when the graph of the
\* enabled non-milestone tasks, with an edge from a task to its enabled
\* predecessor, has a cycle; without a cycle the scheduling order holds every
\* enabled non-milestone task exactly once.
C2_CycleIffReported ==
    result \in {"ok", "cycle"} =>
        /\ (result = "cycle") <=> HasCycle
        /\ result = "ok" => /\ Range(sorted_order) = GraphNodes
                            /\ Len(sorted_order) = Cardinality(GraphNodes)

\* a cycle between two tasks reported while a third task was still emitted
C2_Witness ==
    /\ result = "cycle"
    /\ HasCycle
    /\ sorted_order # << >>
    /\ Cardinality(GraphNodes) = 3

\* the first business day strictly after day d
NextBusinessDayAfter(d) ==
    CHOOSE x \in (d + 1)..(d + 7) :
        IsBusinessDay(x) /\ \A y \in (d + 1)..(x - 1) : ~IsBusinessDay(y)

\* task b is enabled and not pinned, and its predecessor is an enabled
\* non-milestone task with parsable dates
FollowsEnabledTask(b) ==
    /\ items[b].enabled /\ ~items[b].is_milestone /\ ~items[b].is_start_pinned
    /\ items[b].predecessor_id # None
    /\ items[items[b].predecessor_id].enabled
    /\ ~items[items[b].predecessor_id].is_milestone
    /\ Parsable(items[items[b].predecessor_id].start_date)
    /\ Parsable(items[items[b].predecessor_id].end_date)

\* C3: a task pinned at the entry of a recompute called with unpin_all = False
\* is pinned after it with the identical start_date text; if it is an enabled
\* task and the pass reached the scheduling loop, its end_date is
\* _add_business_days(start_date, duration).
C3_PinnedStartKept ==
    (result # "none" /\ ~at_entry.unpin_all) =>
        \A i \in at_entry.pinned :
            /\ items[i].is_start_pinned
            /\ items[i].start_date = at_entry.start[i]
            /\ (items[i].enabled /\ ~items[i].is_milestone
                    /\ result \in {"ok", "ValueError"}) =>
                   items[i].end_date =
                       _add_business_days(items[i].start_date, items[i].duration)

\* task 4, pinned to the unpadded Saturday text, after its link became SS with
\* lag 1 and the project start moved
C3_Witness ==
    /\ result = "ok"
    /\ ~at_entry.unpin_all
    /\ 4 \in at_entry.pinned
    /\ items[4].start_date = ShortStr(12)
    /\ items[4].predecessor_type = "SS"
    /\ items[4].lag = 1
    /\ project_start_date = ShortStr(5)

\* C4 (as the claim states it): after a successful recompute, a non-pinned
\* enabled task whose predecessor is an enabled task, with type FS and lag 0,
\* starts on the first business day strictly after the predecessor's end_date.
C4_FSStartsNextBusinessDay ==
    result = "ok" =>
        \A b \in Ids :
            (FollowsEnabledTask(b) /\ items[b].predecessor_type = "FS"
                 /\ items[b].lag = 0) =>
                /\ Parsable(items[b].start_date)
                /\ strptime(items[b].start_date) =
                       NextBusinessDayAfter(strptime(items[items[b].predecessor_id].end_date))

\* C5 (as the claim states it): after a successful recompute, a non-pinned
\* enabled task whose predecessor is an enabled task, with type SS and lag 1,
\* starts one business day after the predecessor's start_date.
C5_SSLagOneStartsOneDayLater ==
    result = "ok" =>
        \A c \in Ids :
            (FollowsEnabledTask(c) /\ items[c].predecessor_type = "SS"
                 /\ items[c].lag = 1) =>
                /\ Parsable(items[c].start_date)
                /\ strptime(items[c].start_date) =
                       NextBusinessDayAfter(strptime(items[items[c].predecessor_id].start_date))

CalledOnFriday ==
    /\ cal.op = "add"
    /\ weekday(strptime(cal.date)) = 4
    /\ IsBusinessDay(strptime(cal.date))

\* the Monday after the Friday of the last call, or the Tuesday if that
\* Monday is a holiday
MondayOrTuesdayAfter ==
    IF strptime(cal.date) + 3 \in us_holidays
    THEN strftime(strptime(cal.date) + 4)
    ELSE strftime(strptime(cal.date) + 3)

\* C6 (as the claim states it): _add_business_days(Friday, 1) is the following
\* Monday, or the following Tuesday when that Monday is a holiday.
C6_FridayPlusOneIsMonday ==
    (CalledOnFriday /\ cal.n = 1) => cal.out = MondayOrTuesdayAfter

\* C6 (amended): _add_business_days(Friday, 1) is that Friday itself, and
\* _add_business_days(Friday, 2) is the following Monday, or the following
\* Tuesday when that Monday is a holiday.
C6_FridayPlusTwoIsMonday ==
    CalledOnFriday =>
        /\ cal.n = 1 => cal.out = strftime(strptime(cal.date))
        /\ cal.n = 2 => cal.out = MondayOrTuesdayAfter

\* Friday 08/29/25 plus 2 with Labor Day a holiday: Tuesday 09/02/25
C6_Witness ==
    /\ CalledOnFriday
    /\ cal.date = strftime(11)
    /\ cal.n = 2
    /\ us_holidays = {14}
    /\ cal.out = strftime(15)

\* C7: with no holidays, for a business day d and n >= 1,
\* _get_business_days_between(d, _add_business_days(d, n)) = n.
C7_RoundTrip ==
    (/\ cal.op = "between"
     /\ us_holidays = {}
     /\ IsBusinessDay(strptime(cal.date))
     /\ cal.n >= 1) => cal.count = cal.n

\* Thursday 08/21/25 plus 4 crosses a weekend and counts back to 4
C7_Witness ==
    /\ cal.op = "between"
    /\ us_holidays = {}
    /\ cal.date = strftime(3)
    /\ cal.n = 4
    /\ cal.out = strftime(8)
    /\ cal.count = 4

\* the enabled children of item m
EnabledChildren(m) == {c \in Range(items[m].children) : items[c].enabled}

\* every item above m in the tree is enabled
RECURSIVE AncestorsEnabled(_)
AncestorsEnabled(m) ==
    \/ items[m].parent = None
    \/ items[items[m].parent].enabled /\ AncestorsEnabled(items[m].parent)

\* the enabled milestones that have an enabled child
MilestonesWithEnabledChild ==
    {m \in Ids : items[m].is_milestone /\ items[m].enabled /\ EnabledChildren(m) # {}}

RECURSIVE SumOfPrices(_)
SumOfPrices(S) ==
    IF S = {} THEN 0
    ELSE LET c == CHOOSE x \in S : TRUE IN items[c].price + SumOfPrices(S \ {c})

\* milestone m holds the aggregate of its enabled children: the earliest of
\* their start dates, the latest of their end dates, the inclusive count of
\* business days between the two, and the sum of their prices
HoldsRollup(m) ==
    LET starts == {strptime(items[c].start_date) :
                      c \in {x \in EnabledChildren(m) : items[x].start_date # EmptyStr}}
        ends   == {strptime(items[c].end_date) :
                      c \in {x \in EnabledChildren(m) : items[x].end_date # EmptyStr}}
    IN  /\ starts # {} =>
              /\ Parsable(items[m].start_date)
              /\ strptime(items[m].start_date) \in starts
              /\ \A x \in starts : strptime(items[m].start_date) <= x
        /\ ends # {} =>
              /\ Parsable(items[m].end_date)
              /\ strptime(items[m].end_date) \in ends
              /\ \A x \in ends : strptime(items[m].end_date) >= x
        /\ (starts # {} /\ ends # {}) =>
              items[m].duration =
                  Cardinality({d \in strptime(items[m].start_date)..strptime(items[m].end_date) :
                                 IsBusinessDay(d)})
        /\ items[m].price = SumOfPrices(EnabledChildren(m))

FourValues(it) == <<it.duration, it.price, it.start_date, it.end_date>>

\* what milestone m aggregates: its enabled children with their dates and
\* prices
EnabledChildState(m) ==
    [c \in EnabledChildren(m) |->
        <<items[c].start_date, items[c].end_date, items[c].price>>]

\* the items with other values stored in the four fields of milestone m, as an
\* earlier pass over other children would have left them
WithOtherStoredValues(m) ==
    [items EXCEPT ![m].duration = 9, ![m].price = 999,
                  ![m].start_date = strftime(0), ![m].end_date = strftime(1)]

DisablesMilestone(m) ==
    /\ items[m].is_milestone
    /\ items[m].enabled
    /\ EnabledChildren(m) # {}
    /\ ToggleEnabled(m)

\* C11 (as the claim states it): disabling a milestone that has enabled
\* children leaves it and every descendant with empty start_date and end_date
\* and out of the scheduling order, and the recompute ends without error.
C11_DisabledSubtreeCleared ==
    [][\A m \in Ids :
          DisablesMilestone(m) =>
              /\ result' = "ok"
              /\ \A d \in Descendants(items, m) :
                    /\ items'[d].start_date = EmptyStr
                    /\ items'[d].end_date = EmptyStr
                    /\ d \notin Range(sorted_order')]_vars

\* C11 (amended): disabling a milestone that has enabled children disables
\* every descendant, leaves the milestone and every descendant that is not
\* pinned with empty start_date and end_date, keeps every descendant out of
\* the scheduling order, and the recompute ends without error.
C11_DisabledSubtreeClearedUnlessPinned ==
    [][\A m \in Ids :
          DisablesMilestone(m) =>
              /\ result' = "ok"
              /\ \A d \in Descendants(items, m) :
                    /\ ~items'[d].enabled
                    /\ d \notin Range(sorted_order')
                    /\ ~items'[d].is_start_pinned =>
                          /\ items'[d].start_date = EmptyStr
                          /\ items'[d].end_date = EmptyStr]_vars

\* milestone 2 disabled with both tasks below it, task 4 pinned: task 3 has
\* lost its dates, task 5 is scheduled from the project start
C11_Witness ==
    /\ result = "ok"
    /\ items[1].enabled
    /\ ~items[2].enabled /\ ~items[3].enabled /\ ~items[4].enabled
    /\ items[4].is_start_pinned
    /\ items[2].start_date = EmptyStr
    /\ items[3].start_date = EmptyStr
    /\ sorted_order = <<5>>

\* C12 (as the claim states it): after a successful recompute no item below a
\* disabled item is scheduled: it is not in the scheduling order and, unless
\* pinned, it holds no computed or aggregated dates.
C12_NothingBelowDisabledScheduled ==
    result = "ok" =>
        \A i \in Ids :
            ~AncestorsEnabled(i) =>
                /\ i \notin Range(sorted_order)
                /\ ~items[i].is_start_pinned =>
                      /\ items[i].start_date = EmptyStr
                      /\ items[i].end_date = EmptyStr

\* item i is pinned before the step and not pinned after it
Unpinned(i) == items[i].is_start_pinned /\ ~items'[i].is_start_pinned

\* the step ran calculate_all_dates(unpin_all=True)
RecomputedWithUnpinAll == result' # "none" /\ at_entry'.unpin_all

\* C13 (as the claim states it): is_start_pinned of an item goes from true to
\* false only in a step that runs a recompute with unpin_all = True.
C13_UnpinnedOnlyByUnpinAll ==
    [][\A i \in DOMAIN items : Unpinned(i) => RecomputedWithUnpinAll]_vars

\* C13 (amended): is_start_pinned of an item goes from true to false only in a
\* recompute with unpin_all = True, in clear_predecessor on that item, or in
\* a start-date edit of that item that saves the empty text.
C13_UnpinnedOnlyByThreeOperations ==
    [][\A i \in DOMAIN items :
          Unpinned(i) => \/ RecomputedWithUnpinAll
                         \/ ClearPredecessor(i)
                         \/ EditStartDate(i, EmptyStr)]_vars

\* task 4 still pinned to the start typed for it, after it was disabled
C13_Witness ==
    /\ result = "ok"
    /\ steps = 2
    /\ items[4].is_start_pinned
    /\ items[4].start_date = ShortStr(12)
    /\ ~items[4].enabled

\* C14: a successful recompute with unpin_all = True leaves no item of the
\* tree pinned, and every enabled task holds the start_date its predecessor
\* link or the project start gives it and the end_date that follows from it,
\* whatever was pinned before the call.
C14_UnpinAllForgetsPins ==
    (result = "ok" /\ at_entry.unpin_all) =>
        \A i \in Ids :
            /\ ~items[i].is_start_pinned
            /\ (items[i].enabled /\ ~items[i].is_milestone) =>
                  /\ items[i].start_date =
                         DeriveStart(items, item_id_map, i, project_start_date)
                  /\ items[i].end_date =
                         _add_business_days(items[i].start_date, items[i].duration)

\* task 4 was pinned to the unpadded Saturday text at the entry of the call
\* and now starts where its SS link puts it
C14_Witness ==
    /\ result = "ok"
    /\ at_entry.unpin_all
    /\ at_entry.pinned = {4}
    /\ at_entry.start[4] = ShortStr(12)
    /\ items[4].predecessor_type = "SS"
    /\ items[4].start_date = items[3].start_date

\* what the schedule of the tasks is computed from, besides the project start:
\* the tree, and each task's duration, link, pin and enabled flag
SchedulingInputs ==
    <<item_id_map,
      [i \in {j \in Ids : ~items[j].is_milestone} |->
          <<items[i].duration, items[i].predecessor_id, items[i].predecessor_type,
            items[i].lag, items[i].is_start_pinned, items[i].enabled>>],
      [i \in {j \in Ids : items[j].is_milestone} |-> items[i].enabled]>>

\* each enabled task that holds a start_date has end_date =
\* _add_business_days(start_date, duration) for its current duration, and,
\* unless pinned, the start_date its current predecessor link gives it
DatesFollowInputs ==
    \A i \in Ids :
        (items[i].enabled /\ ~items[i].is_milestone /\ items[i].start_date # EmptyStr) =>
            /\ items[i].end_date =
                   _add_business_days(items[i].start_date, items[i].duration)
            /\ ~items[i].is_start_pinned =>
                   items[i].start_date =
                       DeriveStart(items, item_id_map, i, project_start_date)

\* C15 (as the claim states it): every operation that changes a scheduling
\* input recomputes before it returns, so that the dates of the enabled tasks
\* follow from the inputs in the state it leaves.
C15_EveryEditRecomputes ==
    [][SchedulingInputs' # SchedulingInputs => DatesFollowInputs']_vars

\* C16: a recompute whose project start date cannot be parsed reports an
\* invalid-date error and leaves the start_date and end_date of every item
\* as they were before the call, so no task stores the unparsable text and
\* no date is replaced by an empty one.
C16_UnparsableStartChangesNothing ==
    [][(result' # "none" /\ ~Parsable(project_start_date'))
        => /\ result' = "ValueError"
           /\ \A i \in Ids :
                 /\ items'[i].start_date = items[i].start_date
                 /\ items'[i].end_date = items[i].end_date]_vars

\* the predecessor of i is unset, deleted or disabled
NoUsablePredecessor(i) ==
    \/ items[i].predecessor_id = None
    \/ items[i].predecessor_id \notin Range(item_id_map)
    \/ ~items[items[i].predecessor_id].enabled

\* an enabled, non-pinned, non-milestone task without a usable predecessor
StartsAtProjectStart(i) ==
    /\ items[i].enabled
    /\ ~items[i].is_milestone
    /\ ~items[i].is_start_pinned
    /\ NoUsablePredecessor(i)

\* C17: after a recompute over a graph without a cycle and with a parsable
\* project start date, the call has completed without an error and every
\* enabled, non-pinned, non-milestone task whose predecessor is unset,
\* deleted or disabled has start_date equal to the project start date.
C17_NoPredecessorStartsAtProjectStart ==
    (result # "none" /\ ~HasCycle /\ Parsable(project_start_date))
        => /\ result = "ok"
           /\ \A i \in Ids :
                 StartsAtProjectStart(i) => items[i].start_date = project_start_date

\* task 4 still names the deleted task 3 as its predecessor, task 5 names a
\* disabled one, or the project start is a Saturday written without padding
C17_Witness ==
    /\ result = "ok"
    /\ \E i \in Ids :
          /\ StartsAtProjectStart(i)
          /\ items[i].predecessor_id # None
          /\ items[i].predecessor_id \notin Range(item_id_map)
          /\ items[i].start_date = project_start_date

\* the predecessor of task i is an enabled milestone of the tree
PredecessorIsEnabledMilestone(i) ==
    /\ items[i].enabled
    /\ ~items[i].is_milestone
    /\ items[i].predecessor_id \in Range(item_id_map)
    /\ items[items[i].predecessor_id].is_milestone
    /\ items[items[i].predecessor_id].enabled

\* C18: a recompute of a tree in which an enabled task names an enabled
\* milestone as its predecessor, with no cycle among the tasks and a parsable
\* project start, completes normally.
C18_MilestonePredecessorIgnored ==
    (/\ result # "none"
     /\ \E i \in Ids : PredecessorIsEnabledMilestone(i)
     /\ ~HasCycle
     /\ Parsable(project_start_date))
        => result = "ok"

\* the predecessor of i is scheduled: in the tree, enabled and with an end date
HasScheduledPredecessor(i) ==
    /\ items[i].predecessor_id \in Range(item_id_map)
    /\ items[items[i].predecessor_id].enabled
    /\ items[items[i].predecessor_id].end_date # EmptyStr

\* the finish date an FF or SF link of task i prescribes
LinkedFinish(i) ==
    LET pred == items[items[i].predecessor_id]
    IN  IF items[i].predecessor_type = "FF"
        THEN _add_business_days(pred.end_date, items[i].lag)
        ELSE _add_business_days(pred.start_date, items[i].lag)

\* an enabled, non-pinned task of duration >= 1 linked FF or SF to a
\* scheduled predecessor
FinishLinked(i) ==
    /\ items[i].enabled
    /\ ~items[i].is_milestone
    /\ ~items[i].is_start_pinned
    /\ items[i].predecessor_type \in {"FF", "SF"}
    /\ items[i].duration >= 1
    /\ HasScheduledPredecessor(i)

\* C19: after a successful recompute, every enabled non-pinned task of
\* duration >= 1 with an FF or SF link has as end_date the finish date its
\* start_date was derived from: the predecessor's end_date (FF) or start_date
\* (SF) moved by the lag.
C19_FinishReproduced ==
    result = "ok" =>
        \A i \in Ids : FinishLinked(i) => items[i].end_date = LinkedFinish(i)

\* task 4, of duration 2, is linked FF or SF and its backward count from the
\* linked finish crosses the weekend and Labor Day
C19_Witness ==
    /\ result = "ok"
    /\ FinishLinked(4)
    /\ items[4].duration = 2
    /\ us_holidays = {14}
    /\ items[4].end_date = LinkedFinish(4)
    /\ strptime(items[4].start_date) < 14
    /\ strptime(items[4].end_date) > 14

\* C20: after a successful recompute with a parsable project start date,
\* every enabled non-milestone task has a non-empty start_date and a
\* non-empty end_date, and every disabled non-pinned item has both empty.
C20_DatesPopulated ==
    (result = "ok" /\ Parsable(project_start_date)) =>
        \A i \in Ids :
            /\ (items[i].enabled /\ ~items[i].is_milestone)
                    => (items[i].start_date # EmptyStr /\ items[i].end_date # EmptyStr)
            /\ (~items[i].enabled /\ ~items[i].is_start_pinned)
                    => (items[i].start_date = EmptyStr /\ items[i].end_date = EmptyStr)

\* the ids of the rows of the tree are pairwise distinct
DistinctIds(idmap) == Cardinality(Range(idmap)) = Len(idmap)

\* C21: the items of the forest have pairwise distinct ids after every
\* operation, and a step that adds an item adds exactly one id to the forest,
\* an id that no current and no deleted item of the forest has.
C21_IdsDistinctAndNeverReused ==
    [][/\ DistinctIds(item_id_map')
       /\ steps' = steps + 1 =>
             \E i \in Range(item_id_map') :
                /\ i \notin DOMAIN items
                /\ Range(item_id_map') = Range(item_id_map) \cup {i}]_vars

\* in an imported forest the item with the largest id was deleted and an item
\* was added after that
C21_Witness ==
    /\ DistinctIds(item_id_map)
    /\ task_counter > 11
    /\ \E i \in DOMAIN items \ Ids : \E j \in Ids : j = i + 1 /\ j = task_counter

\* the position of x in the scheduling order
PositionIn(order, x) == CHOOSE k \in 1..Len(order) : order[k] = x

\* task i is linked to an enabled non-milestone task of the tree
LinkedToEnabledTask(i) ==
    /\ items[i].enabled
    /\ ~items[i].is_milestone
    /\ items[i].predecessor_id \in Ids
    /\ items[items[i].predecessor_id].enabled
    /\ ~items[items[i].predecessor_id].is_milestone

\* C22: in the order of a successful recompute every enabled non-milestone
\* task whose predecessor is an enabled non-milestone task stands after that
\* predecessor, and both are in the order.
C22_ScheduledAfterPredecessor ==
    result = "ok" =>
        \A i \in Ids :
            LinkedToEnabledTask(i) =>
                /\ i \in Range(sorted_order)
                /\ items[i].predecessor_id \in Range(sorted_order)
                /\ PositionIn(sorted_order, items[i].predecessor_id)
                       < PositionIn(sorted_order, i)

\* a task is linked to one that comes after it in the tree and is scheduled
\* after it all the same
C22_Witness ==
    /\ result = "ok"
    /\ \E i \in Ids :
          /\ LinkedToEnabledTask(i)
          /\ items[i].predecessor_id > i
          /\ PositionIn(sorted_order, items[i].predecessor_id)
                 < PositionIn(sorted_order, i)

\* the start the link of task i prescribes, from the dates of its predecessor
LinkedStart(i) ==
    LET pred == items[items[i].predecessor_id]
        lag == items[i].lag
        back == -(items[i].duration - 1)
    IN  CASE items[i].predecessor_type = "FS" ->
                 _add_business_days(pred.end_date, lag + 1)
          [] items[i].predecessor_type = "SS" ->
                 _add_business_days(pred.start_date, lag)
          [] items[i].predecessor_type = "FF" ->
                 _add_business_days(_add_business_days(pred.end_date, lag), back)
          [] items[i].predecessor_type = "SF" ->
                 _add_business_days(_add_business_days(pred.start_date, lag), back)

\* C23: after a successful recompute every enabled non-pinned non-milestone
\* task with an enabled, scheduled predecessor has the start_date its
\* predecessor type prescribes (FS, SS, FF, SF), and every enabled
\* non-milestone task, pinned or not, has
\* end_date = _add_business_days(start_date, duration).
C23_StartByTypeEndByDuration ==
    result = "ok" =>
        \A i \in Ids :
            (items[i].enabled /\ ~items[i].is_milestone) =>
                /\ (~items[i].is_start_pinned /\ HasScheduledPredecessor(i))
                        => items[i].start_date = LinkedStart(i)
                /\ items[i].end_date =
                       _add_business_days(items[i].start_date, items[i].duration)

\* task 4 is linked SF with a negative lag and starts where the link puts it
C23_Witness ==
    /\ result = "ok"
    /\ items[4].predecessor_type = "SF"
    /\ items[4].lag < 0
    /\ ~items[4].is_start_pinned
    /\ HasScheduledPredecessor(4)
    /\ items[4].start_date = LinkedStart(4)
    /\ items[4].start_date # items[3].start_date

\* the number of business days among the days a..b
BusinessDaysIn(a, b) == Cardinality({x \in a..b : IsBusinessDay(x)})

\* days searched for the k-th business day: k days, their weekends, and the
\* holidays of the calendar
SearchWindow(k) == 2 * k + 8

\* the first business day on or after d
FirstBusinessDayFrom(d) ==
    CHOOSE e \in d..(d + SearchWindow(0)) :
        IsBusinessDay(e) /\ BusinessDaysIn(d, e) = 1

\* the k-th business day after x (k = 0: x itself)
BusinessDayAfter(x, k) ==
    IF k = 0 THEN x
    ELSE CHOOSE e \in (x + 1)..(x + SearchWindow(k)) :
             IsBusinessDay(e) /\ BusinessDaysIn(x + 1, e) = k

\* the k-th business day before x (k = 0: x itself)
BusinessDayBefore(x, k) ==
    IF k = 0 THEN x
    ELSE CHOOSE e \in (x - SearchWindow(k))..(x - 1) :
             IsBusinessDay(e) /\ BusinessDaysIn(e, x - 1) = k

\* the reference: normalize forward, then n - 1 business days on for n > 0,
\* |n| business days back for n <= 0
ReferenceAddBusinessDays(d, n) ==
    IF n > 0 THEN BusinessDayAfter(FirstBusinessDayFrom(d), n - 1)
    ELSE BusinessDayBefore(FirstBusinessDayFrom(d), -n)

\* C24: for every date d and every n, _add_business_days(d, n) is the
\* reference date: the first business day on or after d, moved n - 1 business
\* days on for n > 0 and |n| business days back for n <= 0; so n = 0 and
\* n = 1 give the same date, and the result is a business day.
C24_MatchesReference ==
    cal.op # "none" =>
        /\ cal.out = strftime(ReferenceAddBusinessDays(strptime(cal.date), cal.n))
        /\ IsBusinessDay(strptime(cal.out))
        /\ cal.n \in {0, 1} => cal.out = strftime(FirstBusinessDayFrom(strptime(cal.date)))

\* Saturday 08/30/25 minus 2 with Friday 08/29/25 and Labor Day holidays:
\* normalized forward to Tuesday 09/02/25, then back over the holidays and
\* the weekend to Wednesday 08/27/25
C24_Witness ==
    /\ cal.op = "add"
    /\ us_holidays = {11, 14}
    /\ cal.date = strftime(12)
    /\ cal.n = -2
    /\ cal.out = strftime(9)

\* the text s is a date that is a business day
IsBusinessDate(s) == Parsable(s) /\ IsBusinessDay(strptime(s))

\* C25 (as the claim states it): after a successful recompute the start_date
\* and the end_date of every enabled non-milestone task are business days.
C25_AllDatesBusinessDays ==
    result = "ok" =>
        \A i \in Ids :
            (items[i].enabled /\ ~items[i].is_milestone) =>
                /\ IsBusinessDate(items[i].start_date)
                /\ IsBusinessDate(items[i].end_date)

\* C25 (amended): after a successful recompute the non-empty end_date of
\* every enabled non-milestone task is a business day, and so is the
\* start_date of every such task that is not pinned and has an enabled,
\* scheduled predecessor; a start taken from the project start date or from a
\* pin is the text as given.
C25_DerivedDatesBusinessDays ==
    result = "ok" =>
        \A i \in Ids :
            (items[i].enabled /\ ~items[i].is_milestone) =>
                /\ items[i].end_date # EmptyStr => IsBusinessDate(items[i].end_date)
                /\ (~items[i].is_start_pinned /\ HasScheduledPredecessor(i))
                        => IsBusinessDate(items[i].start_date)

\* the project start is a Saturday: task 3 starts on it, ends on a business
\* day, and task 4 follows on a business day
C25_Witness ==
    /\ result = "ok"
    /\ items[3].enabled
    /\ items[3].start_date = project_start_date
    /\ ~IsBusinessDate(items[3].start_date)
    /\ IsBusinessDate(items[3].end_date)
    /\ ~items[4].is_start_pinned
    /\ HasScheduledPredecessor(4)
    /\ IsBusinessDate(items[4].start_date)

\* an enabled non-milestone task with both dates set
ScheduledTask(i) ==
    /\ items[i].enabled
    /\ ~items[i].is_milestone
    /\ items[i].start_date # EmptyStr
    /\ items[i].end_date # EmptyStr

\* C26: after a successful recompute every enabled non-milestone task with
\* non-empty dates has start_date <= end_date.
C26_StartNotAfterEnd ==
    result = "ok" =>
        \A i \in Ids :
            ScheduledTask(i) =>
                strptime(items[i].start_date) <= strptime(items[i].end_date)

\* task 4 is linked FF or SF with a negative lag and has duration 2
C26_Witness ==
    /\ result = "ok"
    /\ ScheduledTask(4)
    /\ ~items[4].is_start_pinned
    /\ items[4].predecessor_type \in {"FF", "SF"}
    /\ items[4].lag < 0
    /\ items[4].duration = 2
    /\ strptime(items[4].start_date) < strptime(items[4].end_date)
    /\ strptime(items[4].start_date) < strptime(items[3].start_date)

\* C27 (as the claim states it): after a successful recompute, for every
\* enabled non-milestone task of any duration >= 0,
\* _get_business_days_between(start_date, end_date) equals the duration.
C27_CountEqualsDuration ==
    result = "ok" =>
        \A i \in Ids :
            (items[i].enabled /\ ~items[i].is_milestone) =>
                _get_business_days_between(items[i].start_date, items[i].end_date)
                    = items[i].duration

\* C27 (amended): after a successful recompute, for every enabled
\* non-milestone task with non-empty dates,
\* _get_business_days_between(start_date, end_date) equals the duration when
\* the duration is >= 1, and is 1 when the duration is 0.
C27_CountEqualsDurationFromOne ==
    result = "ok" =>
        \A i \in Ids :
            ScheduledTask(i) =>
                _get_business_days_between(items[i].start_date, items[i].end_date)
                    = IF items[i].duration >= 1 THEN items[i].duration ELSE 1

\* task 4 has duration 0 and a start pinned on a Saturday before Labor Day;
\* task 5 after it has duration 2
C27_Witness ==
    /\ result = "ok"
    /\ ScheduledTask(4)
    /\ items[4].duration = 0
    /\ items[4].is_start_pinned
    /\ ~IsBusinessDate(items[4].start_date)
    /\ _get_business_days_between(items[4].start_date, items[4].end_date) = 1
    /\ ScheduledTask(5)
    /\ _get_business_days_between(items[5].start_date, items[5].end_date) = 2

\* the enabled non-milestone tasks anywhere below m
EnabledTasksBeneath(m) ==
    {d \in Descendants(items, m) \ {m} : items[d].enabled /\ ~items[d].is_milestone}

\* the sum over the enabled children of m: the price of a task, the same sum
\* for a child milestone that has an enabled child, and the stored price of
\* a child milestone that has none
RECURSIVE RolledPrice(_)
RolledPrice(m) ==
    LET Part(c) == IF items[c].is_milestone /\ EnabledChildren(c) # {}
                   THEN RolledPrice(c) ELSE items[c].price
        Sum[S \in SUBSET EnabledChildren(m)] ==
            IF S = {} THEN 0
            ELSE LET c == CHOOSE x \in S : TRUE IN Part(c) + Sum[S \ {c}]
    IN  Sum[EnabledChildren(m)]

\* C28 (as the claim states it): after a successful recompute the price of
\* every enabled milestone with an enabled child is the sum of the prices of
\* all enabled non-milestone tasks beneath it, at any depth.
C28_PriceIsSumOfEnabledTasks ==
    result = "ok" =>
        \A m \in MilestonesWithEnabledChild :
            items[m].price = SumOfPrices(EnabledTasksBeneath(m))

\* C28 (amended): after a successful recompute the price of every enabled
\* milestone that has an enabled child and only enabled ancestors is the sum
\* over its enabled children of the price of each task and, through any depth,
\* of the same sum for each child milestone; a child milestone without an
\* enabled child counts with the price stored in it, and tasks below a
\* disabled milestone do not count.
C28_PriceIsSumThroughEnabledMilestones ==
    result = "ok" =>
        \A m \in MilestonesWithEnabledChild :
            AncestorsEnabled(m) => items[m].price = RolledPrice(m)

\* milestone 1 sums the edited price of task 3 through milestone 2, with
\* task 4 disabled, and the price of task 5
C28_Witness ==
    /\ result = "ok"
    /\ 1 \in MilestonesWithEnabledChild
    /\ 2 \in MilestonesWithEnabledChild
    /\ ~items[4].enabled
    /\ items[3].enabled /\ items[3].price = 0
    /\ items[5].enabled
    /\ items[2].price = 0
    /\ items[1].price = items[5].price
    /\ items[1].price = RolledPrice(1)

-----------------------------------------------------------------------------
\* C29: in every forest built by create_template_structure or by
\* flatten_to_template_rows followed by push_into_generator, each predecessor
\* link refers to a non-milestone item of the forest with a strictly smaller
\* id, and no recompute of such a forest, the first one after construction or
\* import included, reports a circular dependency.
C29_LinksPointBackToTasks ==
    /\ \A i \in Ids :
           items[i].predecessor_id # None
               => /\ items[i].predecessor_id \in Ids
                  /\ ~items[items[i].predecessor_id].is_milestone
                  /\ items[i].predecessor_id < i
    /\ result # "cycle"

\* an imported forest with a link that skips over other items, recomputed
C29_Witness ==
    /\ result = "ok"
    /\ Len(item_id_map) > 5
    /\ \E i \in Ids : /\ items[i].predecessor_id # None
                       /\ items[i].predecessor_id < i - 2
                       /\ items[i].start_date # EmptyStr
-----------------------------------------------------------------------------
\* the start_date and end_date a recompute that keeps the pins gives every
\* item of the forest its
RecomputedDates(its, idmap, roots, ps) ==
    LET r == calculate_all_dates(its, idmap, roots, ps, FALSE)
    IN  [i \in DOMAIN its |-> <<r.items[i].start_date, r.items[i].end_date>>]

\* the scheduling inputs of an item that a round trip has to keep
SavedInputs(item) ==
    <<item.duration, item.price, item.enabled, item.predecessor_id,
      item.predecessor_type, item.lag, item.is_start_pinned,
      IF item.is_start_pinned THEN item.start_date ELSE EmptyStr>>

\* C30: saving the forest with save_template_excel and loading the file back
\* with load_template_excel preserves every scheduling input of every item
\* (duration, price, enabled, predecessor id, predecessor type, lag, the pin
\* flag and the pinned start date), and a recompute after the load gives every
\* item the start_date and end_date a recompute before the save gives it.
C30_RoundTripKeepsInputsAndDates ==
    [][(\E confirm \in BOOLEAN : SaveThenLoad(confirm))
        => /\ DOMAIN items' = DOMAIN items
           /\ \A i \in DOMAIN items :
                  SavedInputs(items'[i]) = SavedInputs(items[i])
           /\ RecomputedDates(items', item_id_map', template_items',
                              project_start_date')
                  = RecomputedDates(items, item_id_map, template_items,
                                    project_start_date)]_vars
====
